---- MODULE Spec2Model ----
(***************************************************************************)
(* Orchestration layer of the chord-recognition repository:                *)
(*   batch_chord_recognition.py  main / find_wav_files /                   *)
(*                               estimate_chords_batch                     *)
(*   annotation.py               process_tar_mp3s / process_tar_mixed_mp3s *)
(*   chord_recognition.py        ChordRecognizer.recognize_and_save /      *)
(*                               chord_recognition (ensemble averaging)    *)
(* Three specifications share the module: SpecBatch, SpecTar, SpecRec.     *)
(* The neural network, the CQT extractor, the HMM decoder, ffmpeg and the  *)
(* file system are the environment: their outcomes are nondeterministic.   *)
(***************************************************************************)
EXTENDS Integers, Sequences, FiniteSets, TLC

VARIABLES
    \* ---- batch_chord_recognition.py ----
    pc,                 \* position of main()
    input_dir_exists,   \* args.input_dir.exists()
    input_dir,          \* files below args.input_dir (paths as tuples of parts)
    wav_files,          \* list returned by find_wav_files
    idx,                \* position of the for loop of estimate_chords_batch
    stats,              \* the stats dict
    attempted,          \* paths handed to recognizer.recognize_and_save, in order
    raisedAt,           \* loop positions whose recognition raised
    output_dir,         \* label files in args.output_dir: <<name, input path>>
    stats_json,         \* content of chord_estimation_stats.json ("absent" before)
    exit_code,          \* process exit status (-1 while running)
    \* ---- annotation.py ----
    tpc,                \* position of process_tar_mp3s / process_tar_mixed_mp3s
    mode,               \* "single": process_tar_mp3s, "mixed": process_tar_mixed_mp3s
    tar,                \* members of the archive: [name, isfile]
    files,              \* keys of the dict files (mixed mode)
    track_ids,          \* the set track_ids (mixed mode)
    reported,           \* the count printed by "Found %d tracks ..." (-1: nothing printed)
    todo,               \* items the for loop has still to visit
    cur,                \* the item whose with-blocks are open (at most one)
    tmp,                \* live temporary files: <<item, variable name>>
    mixer_calls,        \* ffmpeg invocations in order: [tid, rc]
    recog_calls,        \* chord_recognition invocations in order: [item, out]
    lab_writes,         \* label files written in order: [item, name]
    out_dir,            \* names of the label files in out_dir
    error,              \* the exception that left the function (at most one)
    \* ---- chord_recognition.py ----
    rpc,                \* position of recognize_and_save / chord_recognition
    api,                \* which of the two entry points runs
    cqt,                \* entry.cqt, the feature input: [id, frames]
    model_i,            \* position of the loop over the models
    probs,              \* the list probs of the models' outputs
    inferences,         \* net.inference calls in order: [model, input]
    decoded,            \* <<probs handed to hmm.decode_to_chordlab>>, <<>> before
    saved,              \* the label file was saved
    rerror              \* the exception that left the function (at most one)

batchVars == <<pc, input_dir_exists, input_dir, wav_files, idx, stats, attempted,
               raisedAt, output_dir, stats_json, exit_code>>

tarVars == <<tpc, mode, tar, files, track_ids, reported, todo, cur, tmp,
             mixer_calls, recog_calls, lab_writes, out_dir, error>>

recVars == <<rpc, api, cqt, model_i, probs, inferences, decoded, saved, rerror>>

vars == <<batchVars, tarVars, recVars>>

----------------------------------------------------------------------------
(* Bounds *)
MaxFiles == 3
MaxMembers == 4
MaxFrames == 2
NumHeads == 2

----------------------------------------------------------------------------
(* Strings and paths *)

\* str.endswith
EndsWith(s, suf) ==
    /\ Len(s) >= Len(suf)
    /\ SubSeq(s, Len(s) - Len(suf) + 1, Len(s)) = suf

\* str.rfind(ch): the last position of ch in s, 0 when absent (1-based)
RECURSIVE RFindFrom(_, _, _)
RFindFrom(s, ch, i) ==
    IF i = 0 THEN 0
    ELSE IF SubSeq(s, i, i) = ch THEN i
    ELSE RFindFrom(s, ch, i - 1)

RFind(s, ch) == RFindFrom(s, ch, Len(s))

\* code points of the characters that occur in the modelled names
Ascii == " ./0123456789ABCDEFGHIJKLMNOPQRSTUVWXYZ_abcdefghijklmnopqrstuvwxyz"

RECURSIVE OrdFrom(_, _)
OrdFrom(c, i) ==
    IF i > Len(Ascii) THEN 0
    ELSE IF SubSeq(Ascii, i, i) = c THEN i
    ELSE OrdFrom(c, i + 1)

Ord(c) == OrdFrom(c, 1)

\* str.__lt__: lexicographic by code point
RECURSIVE StrLessFrom(_, _, _)
StrLessFrom(s, t, i) ==
    IF i > Len(s) THEN i <= Len(t)
    ELSE IF i > Len(t) THEN FALSE
    ELSE IF SubSeq(s, i, i) = SubSeq(t, i, i) THEN StrLessFrom(s, t, i + 1)
    ELSE Ord(SubSeq(s, i, i)) < Ord(SubSeq(t, i, i))

StrLess(s, t) == StrLessFrom(s, t, 1)

\* PurePath.__lt__: the tuples of parts compared lexicographically
RECURSIVE PathLessFrom(_, _, _)
PathLessFrom(p, q, i) ==
    IF i > Len(p) THEN i <= Len(q)
    ELSE IF i > Len(q) THEN FALSE
    ELSE IF p[i] = q[i] THEN PathLessFrom(p, q, i + 1)
    ELSE StrLess(p[i], q[i])

PathLess(p, q) == PathLessFrom(p, q, 1)

\* Path.name: the final component
PathName(p) == p[Len(p)]

\* Path.stem: the final component without its last suffix
PathStem(p) ==
    LET name == PathName(p)
        i    == RFind(name, ".")
    IN  IF 1 < i /\ i < Len(name) THEN SubSeq(name, 1, i - 1) ELSE name

\* sorted(): ascending list of a set of distinct paths
RECURSIVE Sorted(_)
Sorted(S) ==
    IF S = {} THEN <<>>
    ELSE LET m == CHOOSE m \in S : \A o \in S \ {m} : PathLess(m, o)
         IN  <<m>> \o Sorted(S \ {m})

----------------------------------------------------------------------------
(* batch_chord_recognition.py *)

\* files that may lie below the input directory
FileUniverse ==
    { <<"x.wav">>, <<"y.v2.wav">>, <<"a", "x.wav">>, <<"a", "z.wav">>,
      <<"a", "notes.txt">> }

InputDirs == { S \in SUBSET FileUniverse : Cardinality(S) <= MaxFiles }

\* what recognize_and_save can do for one file
Outcomes == { "ok", "inference_error", "save_error" }

\* input_dir.rglob("*.wav"), sorted
find_wav_files(dir) == Sorted({ p \in dir : EndsWith(PathName(p), ".wav") })

\* output_dir / (audio_path.stem + ".lab"), as the file name inside output_dir
OutputName(audio_path) == PathStem(audio_path) \o ".lab"

InitialStats(paths) ==
    [total |-> Len(paths), success |-> 0, failed |-> 0, errors |-> <<>>]

ErrorRecordFullPath(audio_path, e) ==
    [file |-> audio_path[1], output |-> OutputName(audio_path), error |-> e]

ErrorRecord(audio_path, e) ==
    [file |-> PathName(audio_path), output |-> OutputName(audio_path), error |-> e]

OnSuccess(st) == [st EXCEPT !.success = @ + 1]

OnExceptionUncounted(st, audio_path, e) ==
    [st EXCEPT !.errors = Append(@, ErrorRecord(audio_path, e))]

OnException(st, audio_path, e) ==
    [st EXCEPT !.failed = @ + 1,
               !.errors = Append(@, ErrorRecord(audio_path, e))]

ExitCodeOnAnySuccess(st) == IF st.success > 0 THEN 0 ELSE 1

ExitCode(st) == IF st.failed = 0 THEN 0 ELSE 1

\* entry.save writes (or overwrites) the label file of that name
WriteLabel(dir, name, audio_path) ==
    { f \in dir : f[1] # name } \cup { <<name, audio_path>> }

\* the archive functions are not running
TarIdle ==
    /\ tpc = "idle"
    /\ mode = "none"
    /\ tar = {}
    /\ files = {}
    /\ track_ids = {}
    /\ reported = -1
    /\ todo = {}
    /\ cur = {}
    /\ tmp = {}
    /\ mixer_calls = <<>>
    /\ recog_calls = <<>>
    /\ lab_writes = <<>>
    /\ out_dir = {}
    /\ error = {}

\* the recognizer is not running
RecIdle ==
    /\ rpc = "idle"
    /\ api = "none"
    /\ cqt = [id |-> "none", frames |-> 0]
    /\ model_i = 0
    /\ probs = <<>>
    /\ inferences = <<>>
    /\ decoded = <<>>
    /\ saved = FALSE
    /\ rerror = {}

\* main is not running
BatchIdle ==
    /\ pc = "idle"
    /\ input_dir_exists = FALSE
    /\ input_dir = {}
    /\ wav_files = <<>>
    /\ idx = 0
    /\ stats = InitialStats(<<>>)
    /\ attempted = <<>>
    /\ raisedAt = {}
    /\ output_dir = {}
    /\ stats_json = "absent"
    /\ exit_code = -1

InitBatch ==
    /\ pc = "start"
    /\ input_dir_exists \in BOOLEAN
    /\ input_dir \in InputDirs
    /\ (~input_dir_exists => input_dir = {})
    /\ wav_files = <<>>
    /\ idx = 0
    /\ stats = InitialStats(<<>>)
    /\ attempted = <<>>
    /\ raisedAt = {}
    /\ output_dir = {}
    /\ stats_json = "absent"
    /\ exit_code = -1
    /\ TarIdle
    /\ RecIdle

\* main, lines 132-146: the directory checks and the discovery
MainDiscover ==
    /\ pc = "start"
    /\ IF ~input_dir_exists
       THEN \* FileNotFoundError is not caught: the interpreter exits with 1
            /\ pc' = "exited"
            /\ exit_code' = 1
            /\ UNCHANGED wav_files
       ELSE LET found == find_wav_files(input_dir)
            IN  /\ wav_files' = found
                /\ IF Len(found) = 0
                   THEN pc' = "exited" /\ exit_code' = 1
                   ELSE pc' = "load" /\ UNCHANGED exit_code
    /\ UNCHANGED <<input_dir_exists, input_dir, idx, stats, attempted, raisedAt,
                   output_dir, stats_json, tarVars, recVars>>

\* main, lines 149-151: ChordRecognizer(...) loads the models, or raises
LoadRecognizer ==
    /\ pc = "load"
    /\ \E loaded \in BOOLEAN :
          IF loaded
          THEN pc' = "call_batch" /\ UNCHANGED exit_code
          ELSE pc' = "exited" /\ exit_code' = 1
    /\ UNCHANGED <<input_dir_exists, input_dir, wav_files, idx, stats, attempted,
                   raisedAt, output_dir, stats_json, tarVars, recVars>>

\* estimate_chords_batch, lines 96-103
BatchBegin ==
    /\ pc = "call_batch"
    /\ stats' = InitialStats(wav_files)
    /\ idx' = 1
    /\ pc' = "loop"
    /\ UNCHANGED <<input_dir_exists, input_dir, wav_files, attempted, raisedAt,
                   output_dir, stats_json, exit_code, tarVars, recVars>>

\* estimate_chords_batch, lines 105-122: one iteration of the for loop
BatchStep ==
    /\ pc = "loop"
    /\ idx <= Len(wav_files)
    /\ LET audio_path == wav_files[idx]
           name == OutputName(audio_path)
       IN  /\ attempted' = Append(attempted, audio_path)
           /\ \E o \in Outcomes :
                 /\ stats' = IF o = "ok" THEN OnSuccess(stats)
                             ELSE OnException(stats, audio_path, o)
                 /\ raisedAt' = IF o = "ok" THEN raisedAt ELSE raisedAt \cup {idx}
                 \* entry.save is the last statement: a failure before it writes
                 \* nothing, a failure inside it may leave the file behind
                 /\ \/ /\ o \in {"ok", "save_error"}
                       /\ output_dir' = WriteLabel(output_dir, name, audio_path)
                    \/ /\ o \in {"inference_error", "save_error"}
                       /\ UNCHANGED output_dir
    /\ idx' = idx + 1
    /\ UNCHANGED <<pc, input_dir_exists, input_dir, wav_files, stats_json, exit_code, tarVars, recVars>>

\* estimate_chords_batch, line 124
BatchReturn ==
    /\ pc = "loop"
    /\ idx > Len(wav_files)
    /\ pc' = "report"
    /\ UNCHANGED <<input_dir_exists, input_dir, wav_files, idx, stats, attempted,
                   raisedAt, output_dir, stats_json, exit_code, tarVars, recVars>>

\* main, lines 157-172: the summary is printed and json.dump(stats) written
MainReport ==
    /\ pc = "report"
    /\ stats_json' = stats
    /\ pc' = "exit"
    /\ UNCHANGED <<input_dir_exists, input_dir, wav_files, idx, stats, attempted,
                   raisedAt, output_dir, exit_code, tarVars, recVars>>

\* main, lines 175-176: sys.exit(exit_code)
MainExit ==
    /\ pc = "exit"
    /\ exit_code' = ExitCode(stats)
    /\ pc' = "exited"
    /\ UNCHANGED <<input_dir_exists, input_dir, wav_files, idx, stats, attempted,
                   raisedAt, output_dir, stats_json, tarVars, recVars>>

NextBatch ==
    \/ MainDiscover
    \/ LoadRecognizer
    \/ BatchBegin
    \/ BatchStep
    \/ BatchReturn
    \/ MainReport
    \/ MainExit

SpecBatch == InitBatch /\ [][NextBatch]_vars

----------------------------------------------------------------------------
(* annotation.py *)

\* os.path.basename: what follows the last "/"
Basename(s) == SubSeq(s, RFind(s, "/") + 1, Len(s))

\* str.replace(old, new): every occurrence, left to right
RECURSIVE ReplaceFrom(_, _, _, _)
ReplaceFrom(s, old, new, i) ==
    IF i > Len(s) THEN ""
    ELSE IF i + Len(old) - 1 <= Len(s) /\ SubSeq(s, i, i + Len(old) - 1) = old
    THEN new \o ReplaceFrom(s, old, new, i + Len(old))
    ELSE SubSeq(s, i, i) \o ReplaceFrom(s, old, new, i + 1)

Replace(s, old, new) == ReplaceFrom(s, old, new, 1)

\* members an archive may hold
MemberUniverse ==
    { [name |-> n, isfile |-> TRUE] :
        n \in { "A.other.mp3", "A.bass.mp3", "B.other.mp3", "B.bass.mp3",
                "sub/A.other.mp3", "sub/A.bass.mp3", "B_other.mp3",
                "A.vocals.mp3" } }
    \cup { [name |-> "C.other.mp3", isfile |-> FALSE] }

Archives == { S \in SUBSET MemberUniverse : Cardinality(S) <= MaxMembers }

\* lines 26-31: the names kept as keys of files
StemFiles(archive) ==
    { m.name : m \in { x \in archive :
                         /\ x.isfile
                         /\ \/ EndsWith(x.name, "other.mp3")
                            \/ EndsWith(x.name, "bass.mp3") } }

TrackIdsWithBothStems(fs) ==
    { SubSeq(name, 1, Len(name) - 10) :
        name \in { n \in fs :
                     /\ EndsWith(n, "other.mp3")
                     /\ (SubSeq(n, 1, Len(n) - 10) \o ".bass.mp3") \in fs } }

\* lines 32-35: name[:-10] of every key that ends with "other.mp3"
TrackIds(fs) ==
    { SubSeq(name, 1, Len(name) - 10) :
        name \in { n \in fs : EndsWith(n, "other.mp3") } }

EligibleWithOther(tid, fs) == (tid \o ".other.mp3") \in fs

\* line 41
Eligible(tid, fs) ==
    /\ (tid \o ".other.mp3") \in fs
    /\ (tid \o ".bass.mp3") \in fs

\* line 13
SingleSelected(m) == m.isfile /\ EndsWith(m.name, "other.mp3")

\* lines 17-19
SingleLabel(name) == Replace(Basename(name), ".mp3", ".lab")

\* lines 68-70
MixedLabel(tid) == Basename(tid) \o ".lab"

RaisesNever(rc) == FALSE

\* subprocess.run(cmd, check=True): CalledProcessError on a nonzero status
Raises(rc) == rc # 0

WithExitOnReturnOnly(live, raised) == IF raised THEN live ELSE {}

\* leaving the with-blocks of NamedTemporaryFile(delete=True), by return or
\* by exception: every file the blocks opened is closed and unlinked
WithExit(live, raised) == {}

\* the temporary files of the with-blocks of one item
TempNames(m) ==
    IF m = "single" THEN <<"f">> ELSE <<"f_other", "f_bass", "f_mix">>

InitTar ==
    /\ tpc = "start"
    /\ mode \in {"single", "mixed"}
    /\ tar \in Archives
    /\ files = {}
    /\ track_ids = {}
    /\ reported = -1
    /\ todo = {}
    /\ cur = {}
    /\ tmp = {}
    /\ mixer_calls = <<>>
    /\ recog_calls = <<>>
    /\ lab_writes = <<>>
    /\ out_dir = {}
    /\ error = {}
    /\ BatchIdle
    /\ RecIdle

\* process_tar_mp3s, lines 10-12
SingleBegin ==
    /\ tpc = "start"
    /\ mode = "single"
    /\ todo' = tar
    /\ tpc' = "loop"
    /\ UNCHANGED <<mode, tar, files, track_ids, reported, cur, tmp, mixer_calls,
                   recog_calls, lab_writes, out_dir, error, batchVars, recVars>>

\* process_tar_mixed_mp3s, lines 24-37
MixedBegin ==
    /\ tpc = "start"
    /\ mode = "mixed"
    /\ files' = StemFiles(tar)
    /\ track_ids' = TrackIds(files')
    /\ reported' = Cardinality(track_ids')
    /\ todo' = track_ids'
    /\ tpc' = "loop"
    /\ UNCHANGED <<mode, tar, cur, tmp, mixer_calls, recog_calls, lab_writes,
                   out_dir, error, batchVars, recVars>>

\* The next item of the for loop (line 12: archive order; line 38: the
\* iteration order of a set, which the language leaves open) and, when it
\* is selected (line 13, line 41), the opening of its with-blocks (line 14,
\* lines 42-48): made temporary files stay live until the blocks are left.
NextItem ==
    /\ tpc = "loop"
    /\ \E item \in todo :
          IF \/ mode = "single" /\ ~SingleSelected(item)
             \/ mode = "mixed" /\ ~Eligible(item, files)
          THEN /\ todo' = todo \ {item}
               /\ UNCHANGED <<tpc, cur, tmp, error>>
          ELSE \E made \in 0..Len(TempNames(mode)) :
                  LET live == { <<item, TempNames(mode)[k]>> : k \in 1..made }
                  IN  IF made = Len(TempNames(mode))
                      THEN /\ tmp' = live
                           /\ cur' = {item}
                           /\ tpc' = "extract"
                           /\ UNCHANGED <<todo, error>>
                      ELSE \* NamedTemporaryFile raised: the blocks that
                           \* were entered are left
                           /\ tmp' = WithExit(live, TRUE)
                           /\ error' = {[kind |-> "tempfile", item |-> item]}
                           /\ tpc' = "raised"
                           /\ UNCHANGED <<todo, cur>>
    /\ UNCHANGED <<mode, tar, files, track_ids, reported, mixer_calls,
                   recog_calls, lab_writes, out_dir, batchVars, recVars>>

\* lines 15-16, lines 49-52: tar.extractfile(...).read() into the files
Extract ==
    /\ tpc = "extract"
    /\ \E item \in cur : \E ok \in BOOLEAN :
          LET found == mode = "mixed" =>
                          /\ (item \o ".other.mp3") \in files
                          /\ (item \o ".bass.mp3") \in files
          IN  IF ok /\ found
              THEN /\ tpc' = IF mode = "mixed" THEN "mix" ELSE "recognize"
                   /\ UNCHANGED <<tmp, cur, error>>
              ELSE \* KeyError of files[...], or a read error of the archive
                   /\ tmp' = WithExit(tmp, TRUE)
                   /\ cur' = {}
                   /\ error' = {[kind |-> "extract", item |-> item]}
                   /\ tpc' = "raised"
    /\ UNCHANGED <<mode, tar, files, track_ids, reported, todo, mixer_calls,
                   recog_calls, lab_writes, out_dir, batchVars, recVars>>

\* lines 54-67: the ffmpeg invocation
Mix ==
    /\ tpc = "mix"
    /\ \E item \in cur : \E rc \in {0, 1} :
          /\ mixer_calls' = Append(mixer_calls, [tid |-> item, rc |-> rc])
          /\ IF Raises(rc)
             THEN /\ tmp' = WithExit(tmp, TRUE)
                  /\ cur' = {}
                  /\ error' = {[kind |-> "mixer", item |-> item]}
                  /\ tpc' = "raised"
             ELSE /\ tpc' = "recognize"
                  /\ UNCHANGED <<tmp, cur, error>>
    /\ UNCHANGED <<mode, tar, files, track_ids, reported, todo, recog_calls,
                   lab_writes, out_dir, batchVars, recVars>>

\* line 20, line 71: chord_recognition, then the with-blocks are left
Recognize ==
    /\ tpc = "recognize"
    /\ \E item \in cur : \E o \in Outcomes :
          LET out == IF mode = "single" THEN SingleLabel(item.name)
                     ELSE MixedLabel(item)
          IN  /\ recog_calls' = Append(recog_calls, [item |-> item, out |-> out])
              /\ \/ /\ o \in {"ok", "save_error"}
                    /\ lab_writes' = Append(lab_writes, [item |-> item, name |-> out])
                    /\ out_dir' = out_dir \cup {out}
                 \/ /\ o \in {"inference_error", "save_error"}
                    /\ UNCHANGED <<lab_writes, out_dir>>
              /\ tmp' = WithExit(tmp, o # "ok")
              /\ cur' = {}
              /\ IF o = "ok"
                 THEN /\ todo' = todo \ {item}
                      /\ tpc' = "loop"
                      /\ UNCHANGED error
                 ELSE /\ error' = {[kind |-> "recognition", item |-> item]}
                      /\ tpc' = "raised"
                      /\ UNCHANGED todo
    /\ UNCHANGED <<mode, tar, files, track_ids, reported, mixer_calls, batchVars, recVars>>

\* the for loop is exhausted: the function returns
Return ==
    /\ tpc = "loop"
    /\ todo = {}
    /\ tpc' = "returned"
    /\ UNCHANGED <<mode, tar, files, track_ids, reported, todo, cur, tmp,
                   mixer_calls, recog_calls, lab_writes, out_dir, error, batchVars, recVars>>

NextTar ==
    \/ SingleBegin
    \/ MixedBegin
    \/ NextItem
    \/ Extract
    \/ Mix
    \/ Recognize
    \/ Return

SpecTar == InitTar /\ [][NextTar]_vars

----------------------------------------------------------------------------
(* chord_recognition.py *)

\* len(MODEL_NAMES)
NumModels == 5

\* The networks are external. A call returns one array per output head and
\* one value per frame; values are fixed-point numbers. The environment
\* picks a level per call, which fixes an output that differs between
\* heads and frames.
Levels == {0, 1, 2}

NetOutput(level, frames) ==
    [h \in 1..NumHeads |-> [t \in 1..frames |-> (level * h + t) % 4]]

RECURSIVE SumOver(_, _, _)
SumOver(arrs, t, m) ==
    IF m = 0 THEN 0 ELSE arrs[m][t] + SumOver(arrs, t, m - 1)

MeanAxis0FirstTwice(arrs) ==
    [t \in DOMAIN arrs[1] |->
        [num |-> SumOver(arrs, t, Len(arrs)) + arrs[1][t], den |-> Len(arrs) + 1]]

\* np.mean(arrs, axis=0): per frame the sum over the arrays divided by their
\* number, kept as the exact fraction num/den
MeanAxis0(arrs) ==
    [t \in DOMAIN arrs[1] |->
        [num |-> SumOver(arrs, t, Len(arrs)), den |-> Len(arrs)]]

\* lines 114, 141: [np.mean([p[i] for p in probs], axis=0)
\*                  for i in range(len(probs[0]))]
Average(ps) ==
    [i \in 1..Len(ps[1]) |-> MeanAxis0([m \in 1..Len(ps) |-> ps[m][i]])]

\* what one pass of the loop over the models can do
InferResults(entry) ==
    { [kind |-> "ok", level |-> l] : l \in Levels }
    \cup { [kind |-> "inference_error", level |-> 0] }
    \cup (IF entry = "chord_recognition"
          THEN { [kind |-> "load_error", level |-> 0] } ELSE {})

InitRec ==
    /\ rpc = "start"
    /\ api \in {"recognize_and_save", "chord_recognition"}
    /\ cqt \in [id : {"c1", "c2"}, frames : 1..MaxFrames]
    /\ model_i = 0
    /\ probs = <<>>
    /\ inferences = <<>>
    /\ decoded = <<>>
    /\ saved = FALSE
    /\ rerror = {}
    /\ BatchIdle
    /\ TarIdle

\* lines 104-107, lines 130-136: the entry is prepared, probs = []
Prepare ==
    /\ rpc = "start"
    /\ probs' = <<>>
    /\ model_i' = 1
    /\ rpc' = "infer"
    /\ UNCHANGED <<api, cqt, inferences, decoded, saved, rerror, batchVars, tarVars>>

\* lines 108-111, lines 137-140: one pass of the loop over the models
Infer ==
    /\ rpc = "infer"
    /\ model_i <= NumModels
    /\ \E r \in InferResults(api) :
          IF r.kind = "load_error"
          THEN \* NetworkInterface(...) raised before the call
               /\ rerror' = {[kind |-> r.kind, model |-> model_i]}
               /\ rpc' = "raised"
               /\ UNCHANGED <<probs, model_i, inferences>>
          ELSE /\ inferences' = Append(inferences, [model |-> model_i, input |-> cqt])
               /\ IF r.kind = "inference_error"
                  THEN /\ rerror' = {[kind |-> r.kind, model |-> model_i]}
                       /\ rpc' = "raised"
                       /\ UNCHANGED <<probs, model_i>>
                  ELSE /\ probs' = Append(probs, NetOutput(r.level, cqt.frames))
                       /\ model_i' = model_i + 1
                       /\ UNCHANGED <<rpc, rerror>>
    /\ UNCHANGED <<api, cqt, decoded, saved, batchVars, tarVars>>

\* lines 114-117, lines 141-142: the average, then hmm.decode_to_chordlab
Decode ==
    /\ rpc = "infer"
    /\ model_i > NumModels
    /\ decoded' = <<Average(probs)>>
    /\ \E ok \in BOOLEAN :
          IF ok
          THEN rpc' = "save" /\ UNCHANGED rerror
          ELSE rpc' = "raised" /\ rerror' = {[kind |-> "decode_error", model |-> 0]}
    /\ UNCHANGED <<api, cqt, model_i, probs, inferences, saved, batchVars, tarVars>>

\* lines 120-121, lines 143-144: entry.save
Save ==
    /\ rpc = "save"
    /\ \E ok \in BOOLEAN :
          IF ok
          THEN rpc' = "done" /\ saved' = TRUE /\ UNCHANGED rerror
          ELSE /\ rpc' = "raised"
               /\ rerror' = {[kind |-> "save_error", model |-> 0]}
               /\ UNCHANGED saved
    /\ UNCHANGED <<api, cqt, model_i, probs, inferences, decoded, batchVars, tarVars>>

NextRec ==
    \/ Prepare
    \/ Infer
    \/ Decode
    \/ Save

SpecRec == InitRec /\ [][NextRec]_vars

----------------------------------------------------------------------------
(* Properties of the batch runner *)

BatchFinished == pc \in {"report", "exit", "exited"} /\ idx > Len(wav_files)

\* the k-th loop position (in processing order) whose recognition raised
KthRaised(k) ==
    CHOOSE i \in raisedAt : Cardinality({ j \in raisedAt : j <= i }) = k

\* C1: success + failed == total after a batch run; during the loop
\* success + failed is the number of files processed so far, at most total.
C1_StatsBalance ==
    /\ pc = "loop" =>
          /\ stats.success + stats.failed = idx - 1
          /\ stats.success + stats.failed <= stats.total
    /\ (pc = "loop" \/ BatchFinished) => stats.total = Len(wav_files)
    /\ BatchFinished => stats.success + stats.failed = stats.total

C1_Witness ==
    /\ BatchFinished
    /\ stats.success > 0
    /\ stats.failed > 0

\* C2: main exits 0 when the batch finished with failed == 0 and 1 when
\* failed is nonzero, never 0 after a failure, and the statistics file
\* holds the statistics when the process exits after a batch.
C2_ExitCode ==
    /\ pc # "exited" => exit_code = -1
    /\ pc = "exited" =>
          /\ exit_code \in {0, 1}
          /\ BatchFinished =>
                /\ stats.failed = 0 => exit_code = 0
                /\ stats.failed # 0 => exit_code = 1
                /\ stats_json = stats
          /\ exit_code = 0 => BatchFinished /\ stats.failed = 0

C2_Witness ==
    /\ pc = "exited"
    /\ BatchFinished
    /\ stats.failed > 0
    /\ exit_code = 1
    /\ stats_json = stats

\* C3: an exception for one file never aborts the batch: every file is
\* attempted exactly once in list (sorted) order, and for n files of which
\* the set F raise, total = n, success = n - |F|, failed = |F| and errors
\* holds one record per file of F, in processing order, naming that file.
C3_FailureIsolation ==
    /\ pc = "loop" =>
          /\ attempted = SubSeq(wav_files, 1, idx - 1)
          /\ \A i \in raisedAt : i < idx
    /\ BatchFinished =>
          /\ attempted = wav_files
          /\ \A i, j \in 1..Len(wav_files) :
                i < j => PathLess(wav_files[i], wav_files[j])
          /\ stats.total = Len(wav_files)
          /\ stats.failed = Cardinality(raisedAt)
          /\ stats.success = Len(wav_files) - Cardinality(raisedAt)
          /\ Len(stats.errors) = Cardinality(raisedAt)
          /\ \A k \in 1..Len(stats.errors) :
                stats.errors[k].file = PathName(wav_files[KthRaised(k)])

\* three files, one failure: total 3, success 2, failed 1, one error, exit 1
C3_Witness ==
    /\ pc = "exited"
    /\ stats.total = 3
    /\ stats.success = 2
    /\ stats.failed = 1
    /\ Len(stats.errors) = 1
    /\ stats.errors[1].file = "x.wav"
    /\ wav_files[2] = <<"a", "z.wav">>
    /\ raisedAt = {1}
    /\ exit_code = 1

\* C5: one label file per input: a batch in which all n discovered files
\* succeed leaves n distinct .lab files, none overwritten by another input.
C5_OneLabelPerInput ==
    (BatchFinished /\ stats.failed = 0) =>
        /\ attempted = wav_files
        /\ Cardinality(output_dir) = Len(wav_files)
        /\ \A i \in 1..Len(wav_files) :
              <<OutputName(wav_files[i]), wav_files[i]>> \in output_dir

----------------------------------------------------------------------------
(* Properties of the archive extractor *)

\* track ids the modelled archives can name
TrackUniverse == { "A", "B", "C", "sub/A" }

\* the archive holds the regular file <tid>.<stem>.mp3
HasStem(tid, stem) ==
    \E m \in tar : m.isfile /\ m.name = tid \o "." \o stem \o ".mp3"

BothStems(tid) == HasStem(tid, "other") /\ HasStem(tid, "bass")

\* the 2-track archive: both stems of A, only the "other" stem of B
TwoTrackArchive ==
    { [name |-> n, isfile |-> TRUE] :
        n \in { "A.other.mp3", "A.bass.mp3", "B.other.mp3" } }

\* C4: in mixed-stem mode the tracks with both stems get exactly one label
\* file each, named <track_id>.lab: as many label files as such tracks, and
\* no two tracks share a label file.
C4_OneLabelPerTrack ==
    (mode = "mixed" /\ tpc = "returned") =>
        /\ Cardinality(out_dir) =
              Cardinality({ t \in TrackUniverse : BothStems(t) })
        /\ \A i, j \in DOMAIN lab_writes :
              i # j => lab_writes[i].name # lab_writes[j].name

\* C6: in mixed-stem mode a track id lacking the "other" or the "bass" stem
\* never reaches the mixer or chord_recognition, gets no label file and no
\* error; the tracks with both stems are processed all the same.
C6_MissingStemSkipped ==
    mode = "mixed" =>
        /\ \A t \in TrackUniverse \cup track_ids :
              ~BothStems(t) =>
                 /\ \A i \in DOMAIN mixer_calls : mixer_calls[i].tid # t
                 /\ \A i \in DOMAIN recog_calls : recog_calls[i].item # t
                 /\ \A i \in DOMAIN lab_writes : lab_writes[i].item # t
                 /\ \A f \in tmp : f[1] # t
                 /\ \A e \in error : e.item # t
        /\ tpc = "returned" =>
              \A t \in TrackUniverse :
                 BothStems(t) => \E i \in DOMAIN lab_writes : lab_writes[i].item = t

C6_Witness ==
    /\ mode = "mixed"
    /\ tpc = "returned"
    /\ "B" \in track_ids
    /\ ~BothStems("B")
    /\ BothStems("A")
    /\ Len(lab_writes) = 1
    /\ error = {}

\* C7 as stated: the reported track count is the number of tracks that are
\* processed ("Found 1 tracks" for the 2-track archive).
C7_ReportedEqualsProcessed ==
    (mode = "mixed" /\ tpc = "returned") =>
        reported = Cardinality({ recog_calls[i].item : i \in DOMAIN recog_calls })

\* C7 amended: the reported count is the number of track ids that regular
\* file members ending in "other.mp3" give, whether or not the bass stem is
\* there, so it is at least the number of tracks processed; the 2-track
\* archive yields A.lab alone, no error, and the report "Found 2 tracks".
C7_ReportedCountsOtherStems ==
    (mode = "mixed" /\ tpc # "start") =>
        /\ reported =
              Cardinality({ t \in TrackUniverse :
                              \E m \in tar :
                                 /\ m.isfile
                                 /\ EndsWith(m.name, "other.mp3")
                                 /\ SubSeq(m.name, 1, Len(m.name) - 10) = t })
        /\ reported >=
              Cardinality({ recog_calls[i].item : i \in DOMAIN recog_calls })
        /\ (tar = TwoTrackArchive /\ tpc = "returned") =>
              /\ out_dir = {"A.lab"}
              /\ error = {}
              /\ reported = 2

C7_Witness ==
    /\ mode = "mixed"
    /\ tar = TwoTrackArchive
    /\ tpc = "returned"
    /\ out_dir = {"A.lab"}
    /\ error = {}
    /\ reported = 2

\* C8: no temporary file outlives the function, whether it returns or
\* raises; the files of one item are deleted before the next item's are
\* made: at most 1 is live in single-stem mode, at most 3 in mixed-stem mode.
C8_TempFilesDeleted ==
    /\ tpc \in {"start", "loop", "returned", "raised"} => tmp = {}
    /\ Cardinality(tmp) <= (IF mode = "single" THEN 1 ELSE 3)
    /\ Cardinality(cur) <= 1
    /\ \A f \in tmp : f[1] \in cur

C8_Witness ==
    /\ mode = "mixed"
    /\ tpc = "raised"
    /\ \E e \in error : e.kind = "recognition"
    /\ Len(recog_calls) = 2
    /\ tmp = {}

\* C10: when ffmpeg fails for a track it was invoked exactly once for it,
\* chord_recognition is not invoked and no label file is written for that
\* track, and the failure leaves process_tar_mixed_mp3s as an error.
C10_MixerFailureFatal ==
    mode = "mixed" =>
        \A i \in DOMAIN mixer_calls :
           mixer_calls[i].rc # 0 =>
              LET t == mixer_calls[i].tid
              IN  /\ Cardinality({ j \in DOMAIN mixer_calls :
                                     mixer_calls[j].tid = t }) = 1
                  /\ \A j \in DOMAIN recog_calls : recog_calls[j].item # t
                  /\ \A j \in DOMAIN lab_writes : lab_writes[j].item # t
                  /\ tpc = "raised"
                  /\ error = {[kind |-> "mixer", item |-> t]}

C10_Witness ==
    /\ mode = "mixed"
    /\ Len(mixer_calls) = 2
    /\ mixer_calls[1].rc = 0
    /\ mixer_calls[2].rc # 0
    /\ tpc = "raised"

----------------------------------------------------------------------------
(* Properties of the ensemble *)

\* C9: each model of the ensemble is invoked exactly once, on the same
\* feature input; what the decoder receives is, per head and frame, the
\* unweighted mean of the models' outputs; decoding comes after all models.
C9_EnsembleMean ==
    /\ \A i \in DOMAIN inferences :
          /\ inferences[i].model = i
          /\ inferences[i].input = cqt
    /\ Len(inferences) <= NumModels
    /\ rpc \in {"save", "done"} => decoded # <<>>
    /\ decoded # <<>> =>
          /\ Len(inferences) = NumModels
          /\ Len(probs) = NumModels
          /\ DOMAIN decoded[1] = 1..NumHeads
          /\ \A h \in 1..NumHeads :
                /\ DOMAIN decoded[1][h] = 1..cqt.frames
                /\ \A t \in 1..cqt.frames :
                      /\ decoded[1][h][t].den > 0
                      /\ decoded[1][h][t].num * NumModels =
                            decoded[1][h][t].den *
                               SumOver([m \in 1..NumModels |-> probs[m][h]], t, NumModels)

C9_Witness ==
    /\ rpc = "done"
    /\ saved
    /\ decoded # <<>>
    /\ cqt.frames = 2
    /\ probs[1] # probs[2]
    /\ decoded[1][1][1].num = 7
    /\ decoded[1][1][1].den = 5

====
